---- MODULE Spec2Model ----
(***************************************************************************)
(* geo-inference: the tile sampler (InferenceSampler), its bank of blend   *)
(* windows (generate_corner_windows), the merge canvas (InferenceMerge)    *)
(* and the pipeline that drives them (GeoInference.__call__).              *)
(*                                                                         *)
(* Lengths in CRS units and in pixels are integers; the resolution is an   *)
(* integer number of CRS units per pixel, so that the conversions the      *)
(* code makes (round(extent / res), size * res) are exact here.            *)
(* Window weights are integers in units of 1/WONE; probabilities in units  *)
(* of 1/PONE; the buffers of the merge canvas in units of 1/(WONE*PONE),   *)
(* rounded to float16 on every store as numpy does.                        *)
(***************************************************************************)
EXTENDS Integers, Sequences, FiniteSets, TLC

\* ------------------------------------------------------------------ bounds
\* Largest extent of a footprint along an axis (CRS units, and pixels of a raster).
MaxExt == 5
\* Largest stride offered to the sampler.
MaxStride == 3

\* Patch sizes offered: the even ones whose Hann taper is rational, and odd ones.
PatchSizes == {1, 2, 3, 4, 6}
Strides == (0 - 1)..MaxStride
Resolutions == {1, 2}
Extents == 1..MaxExt
Footprints == [w : Extents, h : Extents]
\* The spatial index holds one entry (as RasterDataset builds it) or two.
Indexes == {<<f>> : f \in Footprints} \cup {<<f, g>> : f \in Footprints, g \in Footprints}

\* ------------------------------------------------------------- arithmetic
\* math.ceil(a / b) and np.ceil(a / b) for b # 0.
CeilDiv(a, b) == IF b > 0 THEN 0 - ((0 - a) \div b) ELSE 0 - (a \div (0 - b))

\* Python round(a / b), b > 0: to nearest, ties to the even integer.
RoundDiv(a, b) ==
    LET q == a \div b
        r == a % b
    IN  IF 2 * r < b THEN q
        ELSE IF 2 * r > b THEN q + 1
        ELSE IF q % 2 = 0 THEN q ELSE q + 1

\* torchgeo _to_tuple: a scalar becomes the pair (value, value).
to_tuple(value) == <<value, value>>

\* --------------------------------------------------------------- matrices
\* A matrix is a sequence of rows; m[r+1][c+1] is numpy's m[r, c].
Shape(m) == <<Len(m), IF Len(m) = 0 THEN 0 ELSE Len(m[1])>>
\* m[a:b, :] and m[:, a:b]
Min(a, b) == IF a < b THEN a ELSE b
Rows(m, a, b) == SubSeq(m, a + 1, Min(b, Len(m)))
Cols(m, a, b) == [i \in 1..Len(m) |-> SubSeq(m[i], a + 1, Min(b, Len(m[i])))]
Block(m, r0, r1, c0, c1) == Cols(Rows(m, r0, r1), c0, c1)
\* np.vstack and np.hstack (the blocks stacked side by side here have one height).
VStack(a, b) == a \o b
HStack(a, b) == [i \in 1..Min(Len(a), Len(b)) |-> a[i] \o b[i]]
\* np.tile(row, (k, 1)) of a 1 x n block and np.tile(col, (1, k)) of an n x 1 block
TileRows(blk, k) == [i \in 1..k |-> blk[1]]
TileCols(blk, k) == [i \in 1..Len(blk) |-> [j \in 1..k |-> blk[i][1]]]
\* The weight 1.0 of a window, in window units.
WONE == 16
Ones(r, c) == [i \in 1..r |-> [j \in 1..c |-> WONE]]

\* 2*cos(2*pi*n/M), an integer exactly when M is 1, 2, 3, 4 or 6.
TwoCos(n, M) ==
    LET t == ((12 * n) \div M) % 12
    IN  CASE t = 0 -> 2
          [] t \in {2, 10} -> 1
          [] t \in {3, 9} -> 0
          [] t \in {4, 8} -> 0 - 1
          [] t = 6 -> 0 - 2

\* The taper with its sample index off by one.
hann_shifted(M) == IF M <= 1 THEN [n \in 1..M |-> 4]
                   ELSE [n \in 1..M |-> 2 - TwoCos(n, M)]

\* scipy.signal.windows.hann(M, sym=False): 0.5 - 0.5*cos(2*pi*n/M), n = 0..M-1
\* (the symmetric window of M+1 points with its last point dropped); ones for M <= 1.
\* In units of 1/4.
hann(M) == IF M <= 1 THEN [n \in 1..M |-> 4]
           ELSE [n \in 1..M |-> 2 - TwoCos(n - 1, M)]

\* window.T.dot(window): the outer product of the taper with itself, in units of 1/WONE.
Outer(v) == [i \in 1..Len(v) |-> [j \in 1..Len(v) |-> v[i] * v[j]]]

\* Line 270: window_size >> 1.
Half(window_size) == window_size \div 2

\* The bottom edge built by the expression of the top edge.
window_b_pasted(window, step) ==
    VStack(TileRows(Rows(window, step, step + 1), step), Rows(window, step, Len(window)))

\* Lines 273-276: the four edge windows, the half facing the image border replaced by
\* copies of the midpoint row or column.
window_u(window, step) ==
    VStack(TileRows(Rows(window, step, step + 1), step), Rows(window, step, Len(window)))
window_b(window, step) ==
    VStack(Rows(window, 0, step), TileRows(Rows(window, step, step + 1), step))
window_l(window, step) ==
    HStack(TileCols(Cols(window, step, step + 1), step), Cols(window, step, Len(window)))
window_r(window, step) ==
    HStack(Cols(window, 0, step), TileCols(Cols(window, step, step + 1), step))

\* InferenceSampler.generate_corner_windows: the 3 x 3 nested list handed to np.array.
generate_corner_windows(window_size) ==
    LET n == window_size
        step == Half(window_size)
        window == Outer(hann(n))
        wu == window_u(window, step)
        wb == window_b(window, step)
        wl == window_l(window, step)
        wr == window_r(window, step)
        window_ul == VStack(HStack(Ones(step, step), Block(wu, 0, step, step, n)),
                            HStack(Block(wl, step, n, 0, step), Block(wl, step, n, step, n)))
        window_ur == VStack(HStack(Block(wu, 0, step, 0, step), Ones(step, step)),
                            HStack(Block(wr, step, n, 0, step), Block(wr, step, n, step, n)))
        window_bl == VStack(HStack(Block(wl, 0, step, 0, step), Block(wl, 0, step, step, n)),
                            HStack(Ones(step, step), Block(wb, step, n, step, n)))
        window_br == VStack(HStack(Block(wr, 0, step, 0, step), Block(wr, 0, step, step, n)),
                            HStack(Block(wb, step, n, 0, step), Ones(step, step)))
    IN  << <<window_ul, wu, window_ur>>,
           <<wl, window, wr>>,
           <<window_bl, wb, window_br>> >>

\* np.array(nested list) makes a (3, 3, N, N) array only when the nine entries have one
\* shape; ragged entries make construction fail (np.array, or torch.tensor of the result).
Homogeneous(bank) ==
    \A i \in 1..3 : \A j \in 1..3 : Shape(bank[i][j]) = Shape(bank[2][2])

\* The bank of each patch size offered, built once.
WindowBanks == [n \in PatchSizes |-> generate_corner_windows(n)]

\* ------------------------------------------------------------------ state
VARIABLES
    pc,          \* where the program is: "new", "ready", the lines of __iter__, "done", "error"
    raised,      \* the exception that ended the run ("" when none)
    dataset,     \* the GeoDataset: [index: its footprints in CRS units, res: CRS units per pixel]
    args,        \* the arguments of the call: [size, stride]
    size, stride, windows, hits, hits_small, length, im_height, im_width,  \* InferenceSampler fields
    frame,       \* the locals of the generator __iter__
    query,       \* the tile descriptor yielded last
    out,         \* every tile descriptor yielded so far, in order
    height, width, classes, image, norm_mask,   \* InferenceMerge fields
    batch_size, net,   \* GeoInference: self.batch_size; the softmax of self.model's scores
    batch,       \* the samples the DataLoader has collected for the next batch
    tiles,       \* the inference results handed to the canvas directly, as a sequence
    merged       \* the positions of tiles already merged

samplerVars == <<size, stride, windows, hits, hits_small, length, im_height, im_width>>
iterVars == <<frame, query, out>>
canvasVars == <<height, width, classes, image, norm_mask>>
callVars == <<batch_size, net, batch>>
freeVars == <<tiles, merged>>
mergeVars == <<canvasVars, callVars, freeVars>>
vars == <<pc, raised, dataset, args, samplerVars, iterVars, mergeVars>>

NoFrame == [h |-> 0, y_steps |-> 0, x_steps |-> 0, y |-> 0, x |-> 0, y_min |-> 0,
            x_min |-> 0, border_x |-> 1, border_y |-> 1]
NoQuery == [pixel_coords |-> <<>>, path |-> 0, window |-> <<>>]

\* ------------------------------------------------- InferenceSampler.__init__
\* The extent test of lines 186-187: wide and high enough for one patch.
IsTiled(bounds, size_in_crs_units) ==
    /\ bounds.w >= size_in_crs_units[2]
    /\ bounds.h >= size_in_crs_units[1]

\* The positions of the index entries, in index order, that pass / fail the extent test.
Positions(index) == [i \in 1..Len(index) |-> i]
HitsOf(index, size_in_crs_units) ==
    SelectSeq(Positions(index), LAMBDA i : IsTiled(index[i], size_in_crs_units))
HitsSmallOf(index, size_in_crs_units) ==
    SelectSeq(Positions(index), LAMBDA i : ~IsTiled(index[i], size_in_crs_units))

\* torchgeo tile_to_chips(bounds, size, stride), stride > 0 asserted by its caller below.
tile_to_chips(bounds, sz, st) ==
    <<CeilDiv(bounds.h - sz[1], st[1]) + 1, CeilDiv(bounds.w - sz[2], st[2]) + 1>>

RECURSIVE LengthOf(_, _, _, _)
LengthOf(index, hs, sz, st) ==
    IF hs = <<>> THEN 0
    ELSE LET rc == tile_to_chips(index[Head(hs)], sz, st)
         IN  rc[1] * rc[2] + LengthOf(index, Tail(hs), sz, st)

\* Lines 202-210: every hit overwrites im_height and im_width; the last one stays.
ImHeightOf(index, res, all) == RoundDiv(index[all[Len(all)]].h, res)
ImWidthOf(index, res, all) == RoundDiv(index[all[Len(all)]].w, res)

Raise(e) ==
    /\ pc' = "error"
    /\ raised' = e

InferenceSampler_init ==
    /\ pc = "new"
    /\ LET sz == to_tuple(args.size)
           st == to_tuple(args.stride)
           bank == WindowBanks[sz[1]]
           size_in_crs_units == <<sz[1] * dataset.res, sz[2] * dataset.res>>
           stride_in_crs_units == <<st[1] * dataset.res, st[2] * dataset.res>>
           hs == HitsOf(dataset.index, size_in_crs_units)
           hsmall == HitsSmallOf(dataset.index, size_in_crs_units)
       IN  IF ~Homogeneous(bank)
           THEN Raise("ValueError: inhomogeneous shape") /\ UNCHANGED samplerVars
           ELSE IF hs # <<>> /\ ~(stride_in_crs_units[1] > 0 /\ stride_in_crs_units[2] > 0)
           THEN Raise("AssertionError") /\ UNCHANGED samplerVars
           ELSE /\ pc' = "ready"
                /\ raised' = raised
                /\ size' = sz
                /\ stride' = st
                /\ windows' = bank
                /\ hits' = hs
                /\ hits_small' = hsmall
                /\ length' = LengthOf(dataset.index, hs, size_in_crs_units, stride_in_crs_units)
                          + Len(hsmall)
                /\ im_height' = ImHeightOf(dataset.index, dataset.res, hs \o hsmall)
                /\ im_width' = ImWidthOf(dataset.index, dataset.res, hs \o hsmall)
    /\ UNCHANGED <<dataset, args, iterVars, mergeVars>>

\* ------------------------------------------------- InferenceSampler.__iter__
AllHits == hits \o hits_small

\* iter(sampler): the generator starts at the head of the loop of line 216.
iter_begin ==
    /\ pc = "ready"
    /\ pc' = "for_hit"
    /\ frame' = [NoFrame EXCEPT !.h = 1]
    /\ out' = <<>>
    /\ UNCHANGED <<raised, dataset, args, samplerVars, query, mergeVars>>

\* Line 216 with the hits exhausted: the generator returns.
iter_end ==
    /\ pc = "for_hit"
    /\ frame.h > Len(AllHits)
    /\ pc' = "done"
    /\ UNCHANGED <<raised, dataset, args, samplerVars, iterVars, mergeVars>>

\* Lines 217-219: a hit of self.hits; the steps of its grid from im_height, im_width.
enter_tiled ==
    /\ pc = "for_hit"
    /\ frame.h <= Len(hits)
    /\ IF stride[1] = 0 \/ stride[2] = 0
       THEN Raise("ZeroDivisionError") /\ frame' = frame
       ELSE /\ pc' = "for_y"
            /\ raised' = raised
            /\ frame' = [frame EXCEPT !.y_steps = CeilDiv(im_height - size[1], stride[1]) + 1,
                                      !.x_steps = CeilDiv(im_width - size[2], stride[2]) + 1,
                                      !.y = 0]
    /\ UNCHANGED <<dataset, args, samplerVars, query, out, mergeVars>>

\* Lines 220-224: the next row of the grid, its origin clamped to the image.
for_y ==
    /\ pc = "for_y"
    /\ IF frame.y < frame.y_steps
       THEN /\ pc' = "for_x"
            /\ frame' = [frame EXCEPT !.y_min = IF stride[1] * frame.y + size[1] > im_height
                                                THEN im_height - size[1]
                                                ELSE stride[1] * frame.y,
                                      !.x = 0]
       ELSE /\ pc' = "for_hit"
            /\ frame' = [frame EXCEPT !.h = frame.h + 1]
    /\ UNCHANGED <<raised, dataset, args, samplerVars, query, out, mergeVars>>

\* Lines 231-235: the bank entry of grid position (y, x).
BorderX(y, y_steps) == IF y = y_steps - 1 THEN 2 ELSE IF y = 0 THEN 0 ELSE 1
BorderY(x, x_steps) == IF x = x_steps - 1 THEN 2 ELSE IF x = 0 THEN 0 ELSE 1

\* Lines 225-241: the next tile of the row is yielded, or the row ends.
for_x ==
    /\ pc = "for_x"
    /\ IF frame.x < frame.x_steps
       THEN LET x_min == IF stride[2] * frame.x + size[2] > im_width
                         THEN im_width - size[2]
                         ELSE stride[2] * frame.x
                border_x == BorderX(frame.y, frame.y_steps)
                border_y == BorderY(frame.x, frame.x_steps)
                q == [pixel_coords |-> <<x_min, frame.y_min, size[2], size[1]>>,
                      path |-> AllHits[frame.h],
                      window |-> windows[border_x + 1][border_y + 1]]
            IN  /\ pc' = "yield"
                /\ frame' = [frame EXCEPT !.x_min = x_min, !.border_x = border_x,
                                          !.border_y = border_y]
                /\ query' = q
                /\ out' = Append(out, q)
       ELSE /\ pc' = "for_y"
            /\ frame' = [frame EXCEPT !.y = frame.y + 1]
            /\ UNCHANGED <<query, out>>
    /\ UNCHANGED <<raised, dataset, args, samplerVars, mergeVars>>

\* The generator resumes after the yield of line 241 (what becomes of the query is the
\* consumer's part of the step).
resume ==
    /\ pc = "yield"
    /\ pc' = "for_x"
    /\ frame' = [frame EXCEPT !.x = frame.x + 1]
    /\ UNCHANGED <<raised, dataset, args, samplerVars, query, out>>

\* A small asset's query with the center window of the bank in place of the ones.
SmallQuery_tapered(hit) ==
    [pixel_coords |-> <<0, 0, size[2], size[1]>>, path |-> hit, window |-> windows[2][2]]

\* Lines 243-247: the query of a small asset.
SmallQuery(hit) ==
    [pixel_coords |-> <<0, 0, size[2], size[1]>>, path |-> hit,
     window |-> Ones(size[1], size[2])]

\* Lines 242-248: a hit of self.hits_small yields one tile at the origin, all ones.
yield_small ==
    /\ pc = "for_hit"
    /\ Len(hits) < frame.h
    /\ frame.h <= Len(AllHits)
    /\ LET q == SmallQuery(AllHits[frame.h])
       IN  /\ query' = q
           /\ out' = Append(out, q)
    /\ pc' = "yield_small"
    /\ frame' = [frame EXCEPT !.x_min = 0, !.y_min = 0]
    /\ UNCHANGED <<raised, dataset, args, samplerVars, mergeVars>>

\* The generator resumes after the yield of line 248.
resume_small ==
    /\ pc = "yield_small"
    /\ pc' = "for_hit"
    /\ frame' = [frame EXCEPT !.h = frame.h + 1]
    /\ UNCHANGED <<raised, dataset, args, samplerVars, query, out>>

\* ---------------------------------------------------------- InferenceMerge
\* The probability 1.0 of a softmax output, in probability units.
PONE == 4096
\* The value 1.0 of a buffer cell: buffers hold probability * weight.
CanvasOne == WONE * PONE
\* 2^11: a float16 keeps 11 significant bits.
F16Mant == 2048

\* The spacing of float16 values around v (in buffer units; v below 2^11 units is exact).
RECURSIVE Quantum(_)
Quantum(v) == IF v < F16Mant THEN 1 ELSE 2 * Quantum(v \div 2)

\* The store of v >= 0 into a float16 buffer: to the nearest float16, ties to the even one.
F16Round(v, q) == q * RoundDiv(v, q)
F16(v) == IF v < F16Mant THEN v ELSE F16Round(v, Quantum(v))

\* Python's slice(start, stop) on an axis of length len: negative indices count from the
\* end, both ends are clipped to the axis.
SliceIndex(i, len) ==
    IF i < 0 THEN (IF i + len < 0 THEN 0 ELSE i + len)
    ELSE IF i > len THEN len ELSE i
SliceOf(start, stop, len) == <<SliceIndex(start, len), SliceIndex(stop, len)>>
SliceLen(sl) == IF sl[2] > sl[1] THEN sl[2] - sl[1] ELSE 0

\* A (rows x cols) operand can be added in place to a (r x c) region when each of its
\* axes has the region's length or length 1 (numpy broadcasting).
Fits(rows, cols, r, c) == (rows = r \/ rows = 1) /\ (cols = c \/ cols = 1)

\* The operand cell added to buffer cell (ch, r, c) of the region starting after row
\* ys[1] and column xs[1]: factor * window, each broadcast along its axes of length 1.
Operand(factor, window, ch, r, c, ys, xs) ==
    factor[IF Len(factor) = 1 THEN 1 ELSE ch]
          [IF Len(factor[1]) = 1 THEN 1 ELSE r - ys[1]]
          [IF Len(factor[1][1]) = 1 THEN 1 ELSE c - xs[1]]
    * window[IF Len(window) = 1 THEN 1 ELSE r - ys[1]]
            [IF Len(window[1]) = 1 THEN 1 ELSE c - xs[1]]

\* The statement of lines 347-348 with = in place of +=: the tile overwrites its region.
Accumulate_overwrite(buf, factor, window, ys, xs) ==
    [ch \in 1..Len(buf) |->
        [r \in 1..Len(buf[ch]) |->
            [c \in 1..Len(buf[ch][r]) |->
                IF ys[1] < r /\ r <= ys[2] /\ xs[1] < c /\ c <= xs[2]
                THEN F16(Operand(factor, window, ch, r, c, ys, xs))
                ELSE buf[ch][r][c]]]]

\* buf[:, ys, xs] += factor * window, for a float16 buf: each sum is stored rounded to
\* float16.
Accumulate(buf, factor, window, ys, xs) ==
    [ch \in 1..Len(buf) |->
        [r \in 1..Len(buf[ch]) |->
            [c \in 1..Len(buf[ch][r]) |->
                IF ys[1] < r /\ r <= ys[2] /\ xs[1] < c /\ c <= xs[2]
                THEN F16(buf[ch][r][c] + Operand(factor, window, ch, r, c, ys, xs))
                ELSE buf[ch][r][c]]]]

\* Lines 346-348 for one tile t = [output: the softmax of its scores, per class and cell;
\* window; pixel_coords]: the softmax times the window goes to image, the window to
\* norm_mask. ok is FALSE when numpy cannot add the tile to its region.
MergeTile(b, t) ==
    LET ys == SliceOf(t.pixel_coords[2], t.pixel_coords[2] + t.pixel_coords[4],
                      Len(b.norm_mask[1]))
        xs == SliceOf(t.pixel_coords[1], t.pixel_coords[1] + t.pixel_coords[3],
                      Len(b.norm_mask[1][1]))
    IN  IF ~b.ok \/ ~Fits(Len(t.window), Len(t.window[1]), SliceLen(ys), SliceLen(xs))
        THEN [b EXCEPT !.ok = FALSE]
        ELSE [ok |-> TRUE,
              image |-> Accumulate(b.image, t.output, t.window, ys, xs),
              norm_mask |-> Accumulate(b.norm_mask, <<<<<<PONE>>>>>>, t.window, ys, xs)]

\* InferenceMerge.merge_on_cpu: the tiles of the batch, in order.
RECURSIVE MergeBatch(_, _)
MergeBatch(b, ts) ==
    IF ts = <<>> THEN b ELSE MergeBatch(MergeTile(b, Head(ts)), Tail(ts))

\* A float16 quotient a / n (a >= 0, n > 0) as <<exponent, significand>>, for comparison:
\* the quotient brought to 11 significant bits (to the spacing 2^-24 of the smallest
\* float16 values when it is below them), rounded to nearest even.
RECURSIVE Scaled(_, _, _)
Scaled(a, n, k) == IF a >= (F16Mant \div 2) * n \/ k = 24 THEN <<a, k>> ELSE Scaled(2 * a, n, k + 1)
F16Div(a, n) ==
    IF a = 0 THEN <<0 - 25, 0>>
    ELSE LET sc == Scaled(a, n, 0)
             m == RoundDiv(sc[1], n)
         IN  IF m = F16Mant THEN <<1 - sc[2], F16Mant \div 2>> ELSE <<0 - sc[2], m>>
F16Less(p, q) == p[1] < q[1] \/ (p[1] = q[1] /\ p[2] < q[2])

\* np.argmax along the class axis: the first class (from 0) whose value is the largest.
ArgMax(vals) ==
    CHOOSE i \in 1..Len(vals) :
        /\ \A j \in 1..Len(vals) : ~F16Less(vals[i], vals[j])
        /\ \A j \in 1..(i - 1) : F16Less(vals[j], vals[i])

\* Lines 361-363: image /= norm_mask, the arg-max over the classes, one band of uint8.
LabelRaster(img, nm) ==
    << [r \in 1..Len(nm[1]) |->
          [c \in 1..Len(nm[1][r]) |->
              ArgMax([ch \in 1..Len(img) |-> F16Div(img[ch][r][c], nm[1][r][c])]) - 1]] >>

\* InferenceMerge.__init__: zeros for the accumulator, ones for the normalizer.
Zeros(n, h, w) == [ch \in 1..n |-> [r \in 1..h |-> [c \in 1..w |-> 0]]]
NormOnes(h, w) == << [r \in 1..h |-> [c \in 1..w |-> CanvasOne]] >>

\* ---------------------------------------------------- GeoInference.__call__
\* RasterDataset.__init__: one index entry, the bounds of the raster; res is the pixel
\* width (src.res[0]).
RasterDataset(w_px, h_px, xres, yres) ==
    [index |-> <<[w |-> w_px * xres, h |-> h_px * yres]>>, res |-> xres]

\* The canvas without the padding of one patch.
padded_none(roi, patch_size) == roi

\* Line 79: the image dimension plus one patch.
padded(roi, patch_size) == roi + patch_size

\* Lines 77-81: the merge canvas, sized from the sampler's image dimensions.
InferenceMerge_init ==
    /\ pc = "ready"
    /\ height = 0
    /\ height' = padded(im_height, args.size)
    /\ width' = padded(im_width, args.size)
    /\ image' = Zeros(classes, padded(im_height, args.size), padded(im_width, args.size))
    /\ norm_mask' = NormOnes(padded(im_height, args.size), padded(im_width, args.size))
    /\ UNCHANGED <<pc, raised, dataset, args, samplerVars, iterVars, classes, callVars, freeVars>>

\* Line 82 and the head of line 86: the DataLoader starts to iterate the sampler.
dataloader_iter ==
    /\ height > 0
    /\ iter_begin

\* RasterDataset.__getitem__ and line 90: the sample of a query and the model's output
\* for it, net[ch] at every cell of class ch.
Sample(q) ==
    [output |-> [ch \in 1..Len(net) |-> [r \in 1..q.pixel_coords[4] |->
                    [c \in 1..q.pixel_coords[3] |-> net[ch]]]],
     window |-> q.window,
     pixel_coords |-> q.pixel_coords]

\* The DataLoader takes the yielded query into its batch and asks for the next one.
fetch ==
    /\ Len(batch) < batch_size
    /\ resume \/ resume_small
    /\ batch' = Append(batch, Sample(query))
    /\ UNCHANGED <<canvasVars, batch_size, net, freeVars>>

\* The sampler runs on to its next yield while the DataLoader fills a batch.
sampler_step ==
    /\ Len(batch) < batch_size
    /\ enter_tiled \/ for_y \/ for_x \/ yield_small \/ iter_end

\* Lines 86-91: a full batch, or the last one, is merged into the canvas.
merge_on_cpu ==
    /\ pc \in {"for_hit", "for_y", "for_x", "yield", "yield_small", "done"}
    /\ batch # <<>>
    /\ Len(batch) = batch_size \/ pc = "done"
    /\ \E b \in {MergeBatch([ok |-> TRUE, image |-> image, norm_mask |-> norm_mask], batch)} :
           /\ image' = b.image
           /\ norm_mask' = b.norm_mask
           /\ IF b.ok THEN UNCHANGED <<pc, raised>> ELSE Raise("ValueError: could not be broadcast")
    /\ batch' = <<>>
    /\ UNCHANGED <<dataset, args, samplerVars, iterVars, height, width, classes,
                   batch_size, net, freeVars>>

\* Line 92: InferenceMerge.save_as_tiff once every batch is merged.
save_as_tiff ==
    /\ pc = "done"
    /\ height > 0
    /\ batch = <<>>
    /\ pc' = "saved"
    /\ image' = LabelRaster(image, norm_mask)
    /\ UNCHANGED <<raised, dataset, args, samplerVars, iterVars, height, width, classes,
                   norm_mask, callVars, freeVars>>

\* ------------------------------------------- the canvas driven tile by tile
\* merge_on_cpu called with any batch of one or two of the tiles not merged yet.
BatchesOf(todo) == {<<i>> : i \in todo} \cup {p \in todo \X todo : p[1] # p[2]}

merge_on_cpu_any ==
    /\ pc = "merge"
    /\ \E bt \in BatchesOf((1..Len(tiles)) \ merged) :
          \E b \in {MergeBatch([ok |-> TRUE, image |-> image, norm_mask |-> norm_mask],
                                [k \in 1..Len(bt) |-> tiles[bt[k]]])} :
              /\ image' = b.image
              /\ norm_mask' = b.norm_mask
              /\ merged' = merged \cup {bt[k] : k \in 1..Len(bt)}
              /\ IF b.ok THEN UNCHANGED <<pc, raised>> ELSE Raise("ValueError: could not be broadcast")
    /\ UNCHANGED <<dataset, args, samplerVars, iterVars, height, width, classes, callVars, tiles>>

save_as_tiff_any ==
    /\ pc = "merge"
    /\ merged = 1..Len(tiles)
    /\ pc' = "saved"
    /\ image' = LabelRaster(image, norm_mask)
    /\ UNCHANGED <<raised, dataset, args, samplerVars, iterVars, height, width, classes,
                   norm_mask, callVars, freeVars>>

\* ---------------------------------------------------------- specification
NoSampler ==
    /\ size = <<>> /\ stride = <<>> /\ windows = <<>>
    /\ hits = <<>> /\ hits_small = <<>>
    /\ length = 0 /\ im_height = 0 /\ im_width = 0
    /\ frame = NoFrame /\ query = NoQuery /\ out = <<>>
NoCanvas ==
    /\ height = 0 /\ width = 0 /\ classes = 0 /\ image = <<>> /\ norm_mask = <<>>
NoCall ==
    /\ batch_size = 0 /\ net = <<>> /\ batch = <<>>
NoTiles ==
    /\ tiles = <<>> /\ merged = {}

\* A sampler built on any dataset of the bounds above and iterated once.
Init ==
    /\ pc = "new"
    /\ raised = ""
    /\ dataset \in [index : Indexes, res : Resolutions]
    /\ args \in [size : PatchSizes, stride : Strides]
    /\ NoSampler /\ NoCanvas /\ NoCall /\ NoTiles

\* The consumer of the iteration asks for the next tile.
next_tile == resume /\ UNCHANGED mergeVars
next_tile_small == resume_small /\ UNCHANGED mergeVars

Next ==
    \/ InferenceSampler_init
    \/ iter_begin
    \/ enter_tiled
    \/ for_y
    \/ for_x
    \/ next_tile
    \/ yield_small
    \/ next_tile_small
    \/ iter_end

Spec == Init /\ [][Next]_vars

\* GeoInference.__call__ on one raster: the softmax outputs the model may give a tile
\* (two classes), and the batch sizes.
Softmaxes ==
    {<<PONE, 0>>, <<0, PONE>>, <<(PONE \div 2) + 1, (PONE \div 2) - 1>>, <<1, PONE - 1>>}
BatchSizes == {1, 2}

InitCall ==
    /\ pc = "new"
    /\ raised = ""
    /\ dataset \in {RasterDataset(w, h, xres, yres) :
                       w \in Extents, h \in Extents, xres \in Resolutions, yres \in Resolutions}
    /\ args \in [size : PatchSizes, stride : Strides]
    /\ NoSampler /\ NoTiles
    /\ height = 0 /\ width = 0 /\ image = <<>> /\ norm_mask = <<>>
    /\ classes = 2
    /\ batch_size \in BatchSizes
    /\ net \in Softmaxes
    /\ batch = <<>>

NextCall ==
    \/ InferenceSampler_init
    \/ InferenceMerge_init
    \/ dataloader_iter
    \/ sampler_step
    \/ fetch
    \/ merge_on_cpu
    \/ save_as_tiff

SpecCall == InitCall /\ [][NextCall]_vars

\* A canvas of two classes, two rows and three columns, and up to MaxTiles inference
\* results of 2 x 2 tiles on it, merged in any order and grouping.
MaxTiles == 2
MergeWindows == {WindowBanks[2][1][1], WindowBanks[2][1][2], WindowBanks[2][2][2]}
MergeTiles ==
    {[output |-> [ch \in 1..2 |-> [r \in 1..2 |-> [c \in 1..2 |-> sm[ch]]]],
      window |-> w,
      pixel_coords |-> <<x, 0, 2, 2>>] : sm \in Softmaxes, w \in MergeWindows, x \in 0..1}

InitMerge ==
    /\ pc = "merge"
    /\ raised = ""
    /\ dataset = [index |-> <<>>, res |-> 1]
    /\ args = [size |-> 2, stride |-> 1]
    /\ NoSampler /\ NoCall
    /\ height = 2 /\ width = 3 /\ classes = 2
    /\ image = Zeros(2, 2, 3)
    /\ norm_mask = NormOnes(2, 3)
    /\ \E n \in 1..MaxTiles : tiles \in [1..n -> MergeTiles]
    /\ merged = {}

NextMerge ==
    \/ merge_on_cpu_any
    \/ save_as_tiff_any

SpecMerge == InitMerge /\ [][NextMerge]_vars

\* ------------------------------------------------------------------ claims
Constructed == pc \notin {"new", "error"}
\* The pixel dimensions of index entry p: lines 205-206 applied to that entry.
DimY(p) == RoundDiv(dataset.index[p].h, dataset.res)
DimX(p) == RoundDiv(dataset.index[p].w, dataset.res)
\* The entry is smaller than one patch along some axis.
IsSmall(p) ==
    \/ dataset.index[p].w < size[2] * dataset.res
    \/ dataset.index[p].h < size[1] * dataset.res
TilesOf(p) == SelectSeq(out, LAMBDA t : t.path = p)

\* C1: when the iteration of a sampler has ended, the number of tile descriptors it
\* yielded equals the length the sampler reports.
C1_LenEqualsYielded ==
    pc = "done" => Len(out) = length

\* C2: every tile yielded for a tiled footprint has the patch size as width and height
\* and lies inside that footprint: 0 <= origin and origin + patch <= dimension, per axis.
C2_TileInsideFootprint ==
    pc = "yield" =>
        LET c == query.pixel_coords
        IN  /\ c[3] = size[2] /\ c[4] = size[1]
            /\ 0 <= c[1] /\ c[1] + c[3] <= DimX(query.path)
            /\ 0 <= c[2] /\ c[2] + c[4] <= DimY(query.path)

\* C3: for a tiled footprint of pixel dimension dim on an axis the grid has
\* ceil((dim - patch) / stride) + 1 steps, step i has origin stride*i unless that passes
\* the edge, and the last step has origin dim - patch.
C3_StepsAndOrigins ==
    pc = "yield" =>
        LET dy == DimY(query.path)
            dx == DimX(query.path)
        IN  /\ frame.y_steps = CeilDiv(dy - size[1], stride[1]) + 1
            /\ frame.x_steps = CeilDiv(dx - size[2], stride[2]) + 1
            /\ frame.y < frame.y_steps /\ frame.x < frame.x_steps
            /\ stride[1] * frame.y + size[1] <= dy => query.pixel_coords[2] = stride[1] * frame.y
            /\ stride[2] * frame.x + size[2] <= dx => query.pixel_coords[1] = stride[2] * frame.x
            /\ frame.y = frame.y_steps - 1 => query.pixel_coords[2] = dy - size[1]
            /\ frame.x = frame.x_steps - 1 => query.pixel_coords[1] = dx - size[2]

\* C4: the class of a tile on an axis is first (0) at step 0, else last (2) at step
\* steps - 1, else middle (1); its window is the bank entry at (row class, column class).
ClassOf(i, steps) == IF i = 0 THEN 0 ELSE IF i = steps - 1 THEN 2 ELSE 1
C4_FirstAtStepZero ==
    pc = "yield" =>
        /\ frame.border_x = ClassOf(frame.y, frame.y_steps)
        /\ frame.border_y = ClassOf(frame.x, frame.x_steps)
        /\ query.window = generate_corner_windows(size[1])
                              [ClassOf(frame.y, frame.y_steps) + 1][ClassOf(frame.x, frame.x_steps) + 1]

\* C5: a footprint smaller than one patch along either axis gets exactly one tile, at
\* pixel origin (0, 0), of the patch size, whose blend weight is 1 at every cell.
C5_SmallAssetOneTile ==
    Constructed =>
        \A p \in 1..Len(dataset.index) :
            IsSmall(p) =>
                /\ Len(TilesOf(p)) <= 1
                /\ pc = "done" => Len(TilesOf(p)) = 1
                /\ \A k \in 1..Len(TilesOf(p)) :
                       LET t == TilesOf(p)[k]
                       IN  /\ t.pixel_coords = <<0, 0, size[2], size[1]>>
                           /\ Len(t.window) = size[1]
                           /\ \A r \in 1..size[1] :
                                  /\ Len(t.window[r]) = size[2]
                                  /\ \A c \in 1..size[2] : t.window[r][c] = WONE

\* C5 witness: an iteration over a tiled and a small footprint has ended, the small one
\* having yielded its tile.
C5_Witness ==
    /\ pc = "done"
    /\ hits # <<>>
    /\ \E p \in 1..Len(dataset.index) : IsSmall(p) /\ Len(TilesOf(p)) = 1

\* Cell (r, c), counted from 0 as numpy does, of bank entry (i, j) of the sampler.
Cell(i, j, r, c) == windows[i + 1][j + 1][r + 1][c + 1]
PatchN == size[1]

\* C6 as claimed: the center entry is unchanged by a rotation of 180 degrees,
\* center[r][c] = center[N-1-r][N-1-c].
C6_CenterRot180 ==
    Constructed =>
        \A r \in 0..(PatchN - 1) : \A c \in 0..(PatchN - 1) :
            Cell(1, 1, r, c) = Cell(1, 1, PatchN - 1 - r, PatchN - 1 - c)

\* C6 amended: the center entry is unchanged by a rotation of 180 degrees about cell
\* (N/2, N/2), its peak: center[r][c] = center[(N-r) mod N][(N-c) mod N].
C6_CenterRot180AboutPeak ==
    Constructed =>
        \A r \in 0..(PatchN - 1) : \A c \in 0..(PatchN - 1) :
            Cell(1, 1, r, c) = Cell(1, 1, (PatchN - r) % PatchN, (PatchN - c) % PatchN)

\* C6 witness: a bank of patch size 6 is built; its center has the taper's values off
\* the peak.
C6_Witness ==
    /\ pc = "ready"
    /\ PatchN = 6
    /\ Cell(1, 1, 1, 2) = 3
    /\ Cell(1, 1, 5, 4) = 3

\* C7: in each edge entry the half facing the image border repeats the midpoint row or
\* column of the center entry and the other half equals the center entry; in each corner
\* entry the N/2 x N/2 block at the image corner is 1; every cell of the bank is in [0, 1].
C7_EdgesAndCorners ==
    Constructed =>
        LET n == PatchN
            s == PatchN \div 2
            lo == 0..(s - 1)
            hi == s..(n - 1)
            all == 0..(n - 1)
        IN  /\ \A r \in lo : \A c \in all : Cell(0, 1, r, c) = Cell(1, 1, s, c)
            /\ \A r \in hi : \A c \in all : Cell(0, 1, r, c) = Cell(1, 1, r, c)
            /\ \A r \in hi : \A c \in all : Cell(2, 1, r, c) = Cell(1, 1, s, c)
            /\ \A r \in lo : \A c \in all : Cell(2, 1, r, c) = Cell(1, 1, r, c)
            /\ \A r \in all : \A c \in lo : Cell(1, 0, r, c) = Cell(1, 1, r, s)
            /\ \A r \in all : \A c \in hi : Cell(1, 0, r, c) = Cell(1, 1, r, c)
            /\ \A r \in all : \A c \in hi : Cell(1, 2, r, c) = Cell(1, 1, r, s)
            /\ \A r \in all : \A c \in lo : Cell(1, 2, r, c) = Cell(1, 1, r, c)
            /\ \A r \in lo : \A c \in lo : Cell(0, 0, r, c) = WONE
            /\ \A r \in lo : \A c \in hi : Cell(0, 2, r, c) = WONE
            /\ \A r \in hi : \A c \in lo : Cell(2, 0, r, c) = WONE
            /\ \A r \in hi : \A c \in hi : Cell(2, 2, r, c) = WONE
            /\ \A i \in 0..2 : \A j \in 0..2 : \A r \in all : \A c \in all :
                   0 <= Cell(i, j, r, c) /\ Cell(i, j, r, c) <= WONE

\* C7 witness: a bank of patch size 4 is built, with a tapering center, a plateau on the
\* top edge and a corner block of ones.
C7_Witness ==
    /\ pc = "ready"
    /\ PatchN = 4
    /\ Cell(1, 1, 1, 1) < Cell(1, 1, 2, 2)
    /\ Cell(0, 1, 0, 2) = Cell(1, 1, 2, 2)
    /\ Cell(2, 2, 3, 3) = WONE
    /\ Cell(2, 2, 0, 0) = 0

\* C10: a sampler given a stride <= 0 or an odd patch size is rejected, and yields no
\* tile descriptor.
C10_InvalidConfigRejected ==
    (args.stride <= 0 \/ args.size % 2 = 1) =>
        /\ pc \in {"new", "error"}
        /\ out = <<>>

\* All the tiles handed to the canvas are merged (or the raster is already written).
AllMerged == pc \in {"merge", "saved"} /\ merged = 1..Len(tiles)
\* The buffers after the tiles are merged in the order of the sequence, in one batch.
InOrder ==
    MergeBatch([ok |-> TRUE, image |-> Zeros(classes, height, width),
                norm_mask |-> NormOnes(height, width)], tiles)
SameAsInOrder ==
    /\ norm_mask = InOrder.norm_mask
    /\ pc = "merge" => image = InOrder.image
    /\ pc = "saved" => image = LabelRaster(InOrder.image, InOrder.norm_mask)

\* C8 as claimed: whatever the order and the grouping in which the tiles were merged,
\* the buffers, and then the label raster, are those of merging them in sequence order.
C8_AnyOrderSame ==
    AllMerged => SameAsInOrder

\* What tile i adds, unrounded, to cell (r, c) of class ch of the accumulator (ch >= 1) or
\* of the normalizer (ch = 0).
Contribution(i, ch, r, c) ==
    LET t == tiles[i]
        x == t.pixel_coords[1]
        y == t.pixel_coords[2]
    IN  IF y < r /\ r <= y + t.pixel_coords[4] /\ x < c /\ c <= x + t.pixel_coords[3]
        THEN (IF ch = 0 THEN PONE ELSE t.output[ch][r - y][c - x]) * t.window[r - y][c - x]
        ELSE 0
RECURSIVE SumOf(_, _, _, _, _)
SumOf(n, S, ch, r, c) ==
    IF n = 0 THEN 0
    ELSE (IF n \in S THEN Contribution(n, ch, r, c) ELSE 0) + SumOf(n - 1, S, ch, r, c)
\* Every partial sum of the tiles' contributions to a cell is a float16 value.
NoRounding ==
    \A S \in SUBSET (1..Len(tiles)) : \A r \in 1..height : \A c \in 1..width :
        /\ F16(CanvasOne + SumOf(Len(tiles), S, 0, r, c)) = CanvasOne + SumOf(Len(tiles), S, 0, r, c)
        /\ \A ch \in 1..classes :
               F16(SumOf(Len(tiles), S, ch, r, c)) = SumOf(Len(tiles), S, ch, r, c)

\* C8 amended: when no partial sum of the contributions has to be rounded to fit the
\* float16 buffers, the buffers and the label raster are the same for every order and
\* grouping of the merges.
C8_AnyOrderSameIfExact ==
    (AllMerged /\ NoRounding) => SameAsInOrder

\* C8 witness: two different tiles that overlap were merged without rounding and the
\* raster is written; the cells they share hold the weight of both.
C8_Witness ==
    /\ pc = "saved"
    /\ Len(tiles) = 2
    /\ NoRounding
    /\ tiles[1].pixel_coords[1] # tiles[2].pixel_coords[1]
    /\ tiles[1].output # tiles[2].output
    /\ norm_mask[1][1][2] = 3 * CanvasOne

\* C9: with the canvas of GeoInference.__call__, every tile the sampler yields has a
\* non-negative origin and its region inside the canvas, and no merge fails to write.
C9_WriteInsideCanvas ==
    /\ raised # "ValueError: could not be broadcast"
    /\ height > 0 =>
           \A k \in 1..Len(out) :
               LET c == out[k].pixel_coords
               IN  /\ 0 <= c[1] /\ c[1] + c[3] <= width
                   /\ 0 <= c[2] /\ c[2] + c[4] <= height

\* C9 witness: the run has ended after merging the tile of a small asset, which reaches
\* past the image into the padding.
C9_Witness ==
    /\ pc = "saved"
    /\ hits_small # <<>>
    /\ Len(out) = 1
    /\ out[1].pixel_coords[2] + out[1].pixel_coords[4] > im_height


\* Pixel (r, c), counted from 0, lies inside the region of tile t.
Covers(t, r, c) ==
    /\ t.pixel_coords[2] <= r /\ r < t.pixel_coords[2] + t.pixel_coords[4]
    /\ t.pixel_coords[1] <= c /\ c < t.pixel_coords[1] + t.pixel_coords[3]

\* C11: with 0 < stride <= patch size on both axes, once the iteration has ended every
\* pixel of every intersected footprint (tiled or small) lies inside the region of at
\* least one tile yielded for that footprint.
C11_FullCoverage ==
    (/\ pc = "done"
     /\ 0 < stride[1] /\ stride[1] <= size[1]
     /\ 0 < stride[2] /\ stride[2] <= size[2]) =>
        \A p \in 1..Len(dataset.index) :
            \A r \in 0..(DimY(p) - 1) : \A c \in 0..(DimX(p) - 1) :
                \E k \in 1..Len(TilesOf(p)) : Covers(TilesOf(p)[k], r, c)

====
